---- MODULE Spec2Model ----
(***************************************************************************)
(* Model of homework.py: a bot that polls the homework-review API and      *)
(* relays status changes and failures to one Telegram chat.                *)
(*                                                                         *)
(* Python values are tagged records [pytype, val]; a dict is a TLA+        *)
(* function whose DOMAIN is its key set.  The Russian message texts of the *)
(* source are rendered in English, one distinct text per source text.      *)
(***************************************************************************)
EXTENDS Integers, Sequences, FiniteSets, TLC

VARIABLES
    pc,             \* position of main(): start, fetch, check, parse, diff, except, sleep, loop, exited, crashed
    tokens,         \* PRACTICUM_TOKEN, TELEGRAM_TOKEN, TELEGRAM_CHAT_ID (lines 13-15)
    timestamp,      \* main: timestamp (cursor of the next fetch)
    last_status,    \* main: last_status
    error_message,  \* main: error_message (text of the last error notification)
    response,       \* main: response
    status,         \* main: status
    error,          \* the exception in flight (what `except Exception as error` binds)
    message,        \* main: message (line 157)
    exitCode,       \* the process's exit status once it has exited
    calls,          \* the external calls of the current cycle, in order (fetch, send, sleep)
    sleeps,         \* number of sleeps since the most recent fetch
    cycleStart,     \* timestamp, last_status, error_message as they were when the cycle began
    prev            \* observations rolled over at the loop head.  The previous cycle, if any: its error text, its error sends, for
                    \* how many cycles in a row (1, 2 = two or more) that text came,
                    \* the status it derived, its status sends, and the error text of
                    \* the most recent cycle that took the error path; and, when
                    \* watching, okRun: the delivered notifications of that text since
                    \* it last replaced another error text, okTotal: the delivered
                    \* notifications of WatchedError in the whole run

vars == << pc, tokens, timestamp, last_status, error_message, response, status,
           error, message, exitCode, calls, sleeps, cycleStart, prev >>

-----------------------------------------------------------------------------
(* Bounds and program constants *)

MaxHomeworks == 2

RETRY_PERIOD == 600

HTTP_OK == 200

\* int(time.time()) at startup (line 133): some time before the API's dates.
Now == 500

-----------------------------------------------------------------------------
(* Python values *)

None == [pytype |-> "NoneType", val |-> "None"]

PyStr(s) == [pytype |-> "str", val |-> s]

PyInt(n) == [pytype |-> "int", val |-> n]

PyList(s) == [pytype |-> "list", val |-> s]

PyDict(d) == [pytype |-> "dict", val |-> d]

isinstance(v, t) == v.pytype = t

\* Python truthiness of the values the program tests with `not`.
Truthy(v) ==
    CASE v.pytype = "NoneType" -> FALSE
      [] v.pytype = "str"      -> v.val # ""
      [] v.pytype = "list"     -> Len(v.val) > 0
      [] v.pytype = "int"      -> v.val # 0
      [] OTHER                 -> TRUE

\* dict.get(key): the value, or None when the key is absent.
DictGet(d, key) == IF key \in DOMAIN d THEN d[key] ELSE None

Raise(type, msg) == [raised |-> TRUE, type |-> type, msg |-> msg]

Return(v) == [raised |-> FALSE, value |-> v]

NoException == [type |-> "none", msg |-> ""]

\* str(error): a KeyError prints the repr of its argument, the others the argument.
StrOfError(e) == IF e.type = "KeyError" THEN "'" \o e.msg \o "'" ELSE e.msg

-----------------------------------------------------------------------------
(* int(x) for the values current_date can hold; a str is a tuple of        *)
(* one-character strings so that its digits can be read.                   *)

Digits == <<"0", "1", "2", "3", "4", "5", "6", "7", "8", "9">>

IsDigit(c) == \E i \in 1..10 : Digits[i] = c

DigitValue(c) == (CHOOSE i \in 1..10 : Digits[i] = c) - 1

RECURSIVE ParseDigits(_, _)
ParseDigits(cs, acc) ==
    IF cs = << >> THEN acc
    ELSE ParseDigits(Tail(cs), acc * 10 + DigitValue(Head(cs)))

int(v) ==
    CASE v.pytype = "int" -> Return(v.val)
      [] v.pytype = "str" ->
            IF Len(v.val) > 0 /\ \A i \in 1..Len(v.val) : IsDigit(v.val[i])
            THEN Return(ParseDigits(v.val, 0))
            ELSE Raise("ValueError", "invalid literal for int() with base 10")
      [] OTHER -> Raise("TypeError", "int() argument must be a string or a number")

-----------------------------------------------------------------------------
(* StatusCatalog, ResponseValidator, StatusExtractor *)

HOMEWORK_VERDICTS ==
    [approved  |-> "Review complete: the reviewer liked everything. Hooray!",
     reviewing |-> "The work was taken for review by the reviewer.",
     rejected  |-> "Review complete: the reviewer has remarks."]

\* Mutant: an empty homeworks list is rejected like a value that is no list.
check_response_RejectsEmpty(resp) ==
    IF ~isinstance(resp, "dict")
    THEN Raise("TypeError", "API response is not a dict but " \o resp.pytype)
    ELSE IF "homeworks" \notin DOMAIN resp.val
    THEN Raise("KeyError", "API response has no key \"homeworks\"")
    ELSE IF ~isinstance(resp.val["homeworks"], "list") \/ ~Truthy(resp.val["homeworks"])
    THEN Raise("TypeError", "homeworks in the API response is not a list")
    ELSE Return(None)

check_response(resp) ==
    IF ~isinstance(resp, "dict")
    THEN Raise("TypeError", "API response is not a dict but " \o resp.pytype)
    ELSE IF "homeworks" \notin DOMAIN resp.val
    THEN Raise("KeyError", "API response has no key \"homeworks\"")
    ELSE IF ~isinstance(resp.val["homeworks"], "list")
    THEN Raise("TypeError", "homeworks in the API response is not a list")
    ELSE Return(None)

\* Mutant: the status is checked before the name.
parse_status_StatusFirst(homework) ==
    LET homework_name   == DictGet(homework, "homework_name")
        homework_status == DictGet(homework, "status")
    IN  IF ~Truthy(homework_status)
           \/ homework_status.val \notin DOMAIN HOMEWORK_VERDICTS
        THEN Raise("KeyError", "homework has no status or the status is unknown")
        ELSE IF ~Truthy(homework_name)
        THEN Raise("KeyError", "homework has no key \"homework_name\"")
        ELSE Return("Changed review status of \"" \o homework_name.val \o "\". "
                    \o HOMEWORK_VERDICTS[homework_status.val])

parse_status(homework) ==
    LET homework_name   == DictGet(homework, "homework_name")
        homework_status == DictGet(homework, "status")
    IN  IF ~Truthy(homework_name)
        THEN Raise("KeyError", "homework has no key \"homework_name\"")
        ELSE IF ~Truthy(homework_status)
                \/ homework_status.val \notin DOMAIN HOMEWORK_VERDICTS
        THEN Raise("KeyError", "homework has no status or the status is unknown")
        ELSE Return("Changed review status of \"" \o homework_name.val \o "\". "
                    \o HOMEWORK_VERDICTS[homework_status.val])

-----------------------------------------------------------------------------
(* Inputs: what the environment, the API and Telegram can answer *)

TokenNames == {"PRACTICUM_TOKEN", "TELEGRAM_TOKEN", "TELEGRAM_CHAT_ID"}

\* os.getenv gives None for an unset variable, and the variable may be set empty.
TokenValues == {None, PyStr(""), PyStr("token")}

\* Submission records as the API may send them (dicts with optional keys).
Homeworks ==
    { [homework_name |-> PyStr("HW1"), status |-> PyStr("approved")],
      [homework_name |-> PyStr("HW1"), status |-> PyStr("reviewing")],
      [homework_name |-> PyStr("HW1"), status |-> PyStr("unknown")],
      [status |-> PyStr("approved")] }

HomeworkLists == UNION { [1..n -> Homeworks] : n \in 0..MaxHomeworks }

\* Values of current_date: integers, a numeric string, a non-numeric string.
CurrentDates ==
    { PyInt(1000), PyInt(2000), PyStr(<<"2", "0", "0", "0">>), PyStr(<<"a", "b", "c">>) }

\* JSON bodies of a 200 answer.
Bodies ==
    { PyList(<< >>) }
    \cup { PyDict([current_date |-> cd]) : cd \in CurrentDates }
    \cup { PyDict([homeworks |-> PyStr("x"), current_date |-> cd]) : cd \in CurrentDates }
    \cup { PyDict([homeworks |-> PyList(hs)]) : hs \in HomeworkLists }
    \cup { PyDict([homeworks |-> PyList(hs), current_date |-> cd]) :
              hs \in HomeworkLists, cd \in CurrentDates }

\* What requests.get does: raises (transport failure) or answers with a status code.
FetchOutcomes ==
    { [kind |-> "transport", status_code |-> 0, body |-> None] }
    \cup { [kind |-> "answer", status_code |-> c, body |-> None] : c \in {404, 500} }
    \cup { [kind |-> "answer", status_code |-> HTTP_OK, body |-> b] : b \in Bodies }

-----------------------------------------------------------------------------
(* The functions of the module that touch the outside world *)

\* Mutant: only an unset variable counts as missing, an empty one passes.
check_tokens_NoneOnly(toks) ==
    IF \E k \in DOMAIN toks : toks[k] = None
    THEN [exited |-> TRUE, code |-> 1]
    ELSE [exited |-> FALSE, code |-> 0]

check_tokens(toks) ==
    IF \E k \in DOMAIN toks : ~Truthy(toks[k])
    THEN [exited |-> TRUE, code |-> 1]
    ELSE [exited |-> FALSE, code |-> 0]

\* Mutant: a failed delivery is raised to the caller instead of being logged.
send_message_Raises(delivered) ==
    [raised |-> ~delivered, type |-> "TelegramError", delivered |-> delivered]

\* send_message: bot.send_message succeeds (delivered) or raises; the
\* `except Exception` of line 68 logs the failure and raises nothing.
send_message(delivered) ==
    [raised |-> FALSE, type |-> "none", delivered |-> delivered]

\* get_api_answer: a failure of requests.get is logged and swallowed (line 79),
\* and line 82 then reads the local `response`, which was never bound.
get_api_answer(outcome) ==
    IF outcome.kind = "transport"
    THEN Raise("UnboundLocalError",
               "local variable 'response' referenced before assignment")
    ELSE IF outcome.status_code # HTTP_OK
    THEN Raise("RequestException",
               "Error in the API server answer! Answer code: "
               \o ToString(outcome.status_code))
    ELSE Return(outcome.body)

-----------------------------------------------------------------------------
(* Records of the external calls (observations, not program state) *)

FetchCall(from_date, outcome) ==
    [op |-> "fetch", path |-> outcome.kind, text |-> ToString(outcome.status_code),
     from_date |-> from_date, ok |-> outcome.kind = "answer" /\ outcome.status_code = HTTP_OK]

SendCall(path, text, ok) ==
    [op |-> "send", path |-> path, text |-> text, from_date |-> 0, ok |-> ok]

SleepCall(secs) ==
    [op |-> "sleep", path |-> "", text |-> ToString(secs), from_date |-> 0, ok |-> TRUE]

NoText == "<no error>"

\* The local `status` before line 143 or 145 has assigned it.
NoStatus == "<unassigned>"

StateOfLoop == [timestamp |-> timestamp, last_status |-> last_status,
                error_message |-> error_message]

-----------------------------------------------------------------------------
(* main() *)

\* The state when main() is entered.  With `watching` the delivered error
\* notifications are counted over the whole run (okRun, okTotal of prev).
InitState(watching) ==
    /\ pc = "start"
    /\ tokens \in [TokenNames -> TokenValues]
    /\ timestamp = 0
    /\ last_status = ""
    /\ error_message = ""
    /\ response = None
    /\ status = NoStatus
    /\ error = NoException
    /\ message = ""
    /\ exitCode = 0
    /\ calls = << >>
    /\ sleeps = 0
    /\ cycleStart = [timestamp |-> 0, last_status |-> "", error_message |-> ""]
    /\ prev = [any |-> FALSE, err |-> NoText, errSends |-> 0, run |-> 0,
               status |-> NoStatus, statusSends |-> 0, lastErr |-> NoText,
               watching |-> watching, okRun |-> 0, okTotal |-> 0]

Init == InitState(FALSE)

InitWatch == InitState(TRUE)

\* Lines 130-135: check_tokens, then the initial PollState.
Startup ==
    /\ pc = "start"
    /\ LET r == check_tokens(tokens)
       IN  IF r.exited
           THEN /\ pc' = "exited"
                /\ exitCode' = r.code
                /\ UNCHANGED << timestamp, cycleStart >>
           ELSE /\ pc' = "fetch"
                /\ timestamp' = Now
                /\ cycleStart' = [timestamp |-> Now, last_status |-> "",
                                  error_message |-> ""]
                /\ UNCHANGED exitCode
    /\ last_status' = ""
    /\ error_message' = ""
    /\ UNCHANGED << tokens, response, status, error, message, calls, sleeps, prev >>

\* Line 139: response = get_api_answer(timestamp).
GetApiAnswer ==
    /\ pc = "fetch"
    /\ \E outcome \in FetchOutcomes :
          LET r == get_api_answer(outcome)
          IN  /\ calls' = Append(calls, FetchCall(timestamp, outcome))
              /\ IF r.raised
                 THEN /\ error' = [type |-> r.type, msg |-> r.msg]
                      /\ pc' = "except"
                      /\ UNCHANGED response
                 ELSE /\ response' = r.value
                      /\ pc' = "check"
                      /\ UNCHANGED error
    /\ sleeps' = 0
    /\ UNCHANGED << tokens, timestamp, last_status, error_message, status,
                    message, exitCode, cycleStart, prev >>

\* Line 140: check_response(response).
CheckResponse ==
    /\ pc = "check"
    /\ LET r == check_response(response)
       IN  IF r.raised
           THEN /\ error' = [type |-> r.type, msg |-> r.msg]
                /\ pc' = "except"
           ELSE /\ pc' = "parse"
                /\ UNCHANGED error
    /\ UNCHANGED << tokens, timestamp, last_status, error_message, response,
                    status, message, exitCode, calls, sleeps, cycleStart, prev >>

\* Mutant: an empty homeworks list yields the empty status, not the last one.
derive_status_EmptyText(resp, last) ==
    LET homeworks == resp.val["homeworks"]
    IN  IF ~Truthy(homeworks)
        THEN Return("")
        ELSE parse_status(homeworks.val[1])

\* Lines 142-145: the previous status when homeworks is empty, else the
\* status parsed from its first record.
derive_status(resp, last) ==
    LET homeworks == resp.val["homeworks"]
    IN  IF ~Truthy(homeworks)
        THEN Return(last)
        ELSE parse_status(homeworks.val[1])

DeriveStatus ==
    /\ pc = "parse"
    /\ LET r == derive_status(response, last_status)
       IN  IF r.raised
           THEN /\ error' = [type |-> r.type, msg |-> r.msg]
                /\ pc' = "except"
                /\ UNCHANGED status
           ELSE /\ status' = r.value
                /\ pc' = "diff"
                /\ UNCHANGED error
    /\ UNCHANGED << tokens, timestamp, last_status, error_message, response,
                    message, exitCode, calls, sleeps, cycleStart, prev >>

\* Mutant: the sleep stands at the end of the try body, not in a finally clause.
AfterTry_NoFinally(viaExcept) == IF viaExcept THEN "loop" ELSE "sleep"

\* Lines 138-170: the try statement has a finally clause, so control reaches
\* the sleep both from the end of the try body and from the except clause.

AfterTry(viaExcept) == "sleep"

\* Mutant: every derived status is notified, changed or not.
StatusChanged_Always(new, last) == TRUE

\* Line 147: a status is notified when it differs from the last one.
StatusChanged(new, last) == new # last

\* Mutant: every error is notified, whatever was notified before.
ShouldReport_Always(msg, last) == TRUE

\* Line 160: an error is notified when its text differs from the last one's.
ShouldReport(msg, last) == msg # last

\* Lines 147-154: compare with the last status, notify, record.
DiffNotify ==
    /\ pc = "diff"
    /\ IF StatusChanged(status, last_status)
       THEN \E delivered \in BOOLEAN :
              LET sent == send_message(delivered)
                  date == IF "current_date" \in DOMAIN response.val
                          THEN int(response.val["current_date"])
                          ELSE Raise("KeyError", "current_date")
              IN  /\ calls' = Append(calls, SendCall("status", status, delivered))
                  /\ IF sent.raised
                     THEN /\ error' = [type |-> sent.type, msg |-> "delivery failed"]
                          /\ pc' = "except"
                          /\ UNCHANGED << last_status, timestamp >>
                     ELSE /\ last_status' = status
                          /\ IF date.raised
                             THEN /\ error' = [type |-> date.type, msg |-> date.msg]
                                  /\ pc' = "except"
                                  /\ UNCHANGED timestamp
                             ELSE /\ timestamp' = date.value
                                  /\ pc' = AfterTry(FALSE)
                                  /\ UNCHANGED error
       ELSE /\ pc' = AfterTry(FALSE)
            /\ UNCHANGED << calls, last_status, timestamp, error >>
    /\ UNCHANGED << tokens, error_message, response, status, message, exitCode,
                    sleeps, cycleStart, prev >>

\* Mutant: the except clause also forgets the last status.
ErrorPath_ResetsStatus ==
    /\ pc = "except"
    /\ message' = "Program failure: " \o StrOfError(error)
    /\ IF message' # error_message
       THEN \E delivered \in BOOLEAN :
              /\ calls' = Append(calls, SendCall("error", message', delivered))
              /\ error_message' = message'
       ELSE UNCHANGED << calls, error_message >>
    /\ error' = NoException
    /\ last_status' = ""
    /\ pc' = "sleep"
    /\ UNCHANGED << tokens, timestamp, response, status, exitCode, sleeps,
                    cycleStart, prev >>

\* Lines 156-167: the error path.  An exception send_message raised would be
\* caught only if it were a NotForSendingError; any other would leave the loop
\* once the finally clause has run.
ErrorPath ==
    /\ pc = "except"
    /\ message' = "Program failure: " \o StrOfError(error)
    /\ IF ShouldReport(message', error_message)
       THEN \E delivered \in BOOLEAN :
              LET sent == send_message(delivered)
              IN  /\ calls' = Append(calls, SendCall("error", message', delivered))
                  /\ IF ~sent.raised
                     THEN /\ error_message' = message'
                          /\ error' = NoException
                     ELSE /\ UNCHANGED error_message
                          /\ error' = IF sent.type = "NotForSendingError"
                                      THEN NoException
                                      ELSE [type |-> sent.type, msg |-> "delivery failed"]
       ELSE /\ error' = NoException
            /\ UNCHANGED << calls, error_message >>
    /\ pc' = AfterTry(TRUE)
    /\ UNCHANGED << tokens, timestamp, last_status, response, status, exitCode,
                    sleeps, cycleStart, prev >>

\* Lines 169-170: finally: time.sleep(RETRY_PERIOD); an exception still in
\* flight then leaves main().
Sleep ==
    /\ pc = "sleep"
    /\ calls' = Append(calls, SleepCall(RETRY_PERIOD))
    /\ sleeps' = sleeps + 1
    /\ pc' = IF error # NoException THEN "crashed" ELSE "loop"
    /\ exitCode' = IF error # NoException THEN 1 ELSE exitCode
    /\ UNCHANGED << tokens, timestamp, last_status, error_message, response,
                    status, error, message, cycleStart, prev >>

NumSends(cs, path) ==
    Cardinality({ i \in 1..Len(cs) : cs[i].op = "send" /\ cs[i].path = path })

\* Delivered error notifications with the given text among the calls.
NumDelivered(cs, text) ==
    Cardinality({ i \in 1..Len(cs) :
                    cs[i].op = "send" /\ cs[i].path = "error" /\ cs[i].ok
                    /\ cs[i].text = text })

\* Counts of the observations stop at two: "more than once" is all they tell.
Capped(n) == IF n > 2 THEN 2 ELSE n

\* The error text whose deliveries are counted over the whole run: the one of
\* an answer with status 500.
WatchedError ==
    "Program failure: Error in the API server answer! Answer code: 500"

\* The observations of the finished cycle, as the next cycle sees them.
PrevRolled ==
    IF message = ""
    THEN [any |-> TRUE, err |-> NoText, errSends |-> 0, run |-> 0,
          status |-> status, statusSends |-> NumSends(calls, "status"),
          lastErr |-> prev.lastErr,
          watching |-> prev.watching, okRun |-> prev.okRun,
          okTotal |-> prev.okTotal]
    ELSE [any |-> TRUE, err |-> message, errSends |-> NumSends(calls, "error"),
          run |-> IF prev.err = message /\ prev.run >= 1 THEN 2 ELSE 1,
          status |-> status, statusSends |-> NumSends(calls, "status"),
          lastErr |-> message,
          watching |-> prev.watching,
          okRun |-> IF ~prev.watching THEN 0
                    ELSE Capped((IF message = prev.lastErr THEN prev.okRun ELSE 0)
                                + NumDelivered(calls, message)),
          okTotal |-> IF ~prev.watching THEN 0
                      ELSE Capped(prev.okTotal
                                  + NumDelivered(calls, WatchedError))]

\* Mutant: error_message is initialised inside the loop, at the head of each cycle.
Loop_ResetsErrorText ==
    /\ pc = "loop"
    /\ pc' = "fetch"
    /\ response' = None
    /\ status' = NoStatus
    /\ message' = ""
    /\ calls' = << >>
    /\ error_message' = ""
    /\ cycleStart' = StateOfLoop
    /\ prev' = PrevRolled
    /\ UNCHANGED << tokens, timestamp, last_status, error, exitCode, sleeps >>

\* Line 137: while True.  The locals response, status and message are assigned
\* again before they are next read, so they are cleared here; the observations
\* of the finished cycle are rolled over.
Loop ==
    /\ pc = "loop"
    /\ pc' = "fetch"
    /\ response' = None
    /\ status' = NoStatus
    /\ message' = ""
    /\ calls' = << >>
    /\ cycleStart' = StateOfLoop
    /\ prev' = PrevRolled
    /\ UNCHANGED << tokens, timestamp, last_status, error_message, error, exitCode,
                    sleeps >>

Next ==
    \/ Startup
    \/ GetApiAnswer
    \/ CheckResponse
    \/ DeriveStatus
    \/ DiffNotify
    \/ ErrorPath
    \/ Sleep
    \/ Loop

Spec == Init /\ [][Next]_vars

\* The process is one thread that runs until it is stopped from outside, and
\* its blocking calls (fetch, send, sleep) return: a step of main() that can be
\* taken is eventually taken.
LiveSpec == Spec /\ WF_vars(Next)

-----------------------------------------------------------------------------
(* check_response applied to one response, drawn from a wider set *)

\* Values check_response may be given: the bodies above, other values that are
\* no dict, and dicts whose homeworks is of another type.
ValidatorInputs ==
    Bodies
    \cup { None, PyStr("x"), PyInt(5), PyList(<< PyInt(1) >>) }
    \cup { PyDict([homeworks |-> h]) : h \in { None, PyInt(1), PyStr(""), PyDict(<< >>) } }
    \cup { PyDict([homeworks |-> h, current_date |-> PyInt(1000)]) :
             h \in { None, PyInt(1), PyStr(""), PyDict(<< >>) } }
    \cup { PyDict(<< >>) }

\* main() stands before line 140 with some response in hand.
InitValidate ==
    /\ pc = "check"
    /\ response \in ValidatorInputs
    /\ tokens = [k \in TokenNames |-> PyStr("token")]
    /\ timestamp = Now
    /\ last_status = ""
    /\ error_message = ""
    /\ status = NoStatus
    /\ error = NoException
    /\ message = ""
    /\ exitCode = 0
    /\ calls = << >>
    /\ sleeps = 0
    /\ cycleStart = [timestamp |-> Now, last_status |-> "", error_message |-> ""]
    /\ prev = [any |-> FALSE, err |-> NoText, errSends |-> 0, run |-> 0,
               status |-> NoStatus, statusSends |-> 0, lastErr |-> NoText,
               watching |-> FALSE, okRun |-> 0, okTotal |-> 0]

ValidateSpec == InitValidate /\ [][CheckResponse]_vars

-----------------------------------------------------------------------------
(* parse_status applied to one record, drawn from a wider set *)

\* Marks a key the record does not have (no Python value).
Absent == [pytype |-> "absent", val |-> "absent"]

NameOptions == { Absent, None, PyStr(""), PyStr("HW1"), PyStr("HW2") }

StatusOptions ==
    { Absent, None, PyStr(""), PyStr("approved"), PyStr("reviewing"),
      PyStr("rejected"), PyStr("unknown") }

\* The dict with the keys whose value is not Absent.
RecordOf(name, stat) ==
    LET all == [homework_name |-> name, status |-> stat]
    IN  [k \in { key \in DOMAIN all : all[key] # Absent } |-> all[k]]

ExtractorInputs == { RecordOf(n, st) : n \in NameOptions, st \in StatusOptions }

\* main() stands before line 142 with a one-record response in hand, in some
\* state of the loop.
InitExtract ==
    /\ pc = "parse"
    /\ \E rec \in ExtractorInputs :
          response = PyDict([homeworks |-> PyList(<< rec >>),
                             current_date |-> PyInt(1000)])
    /\ tokens = [k \in TokenNames |-> PyStr("token")]
    /\ timestamp \in {Now, 1000}
    /\ last_status \in {"", "Changed review status of \"HW1\". "
                            \o HOMEWORK_VERDICTS["approved"]}
    /\ error_message = ""
    /\ status = NoStatus
    /\ error = NoException
    /\ message = ""
    /\ exitCode = 0
    /\ calls = << >>
    /\ sleeps = 0
    /\ cycleStart = StateOfLoop
    /\ prev = [any |-> FALSE, err |-> NoText, errSends |-> 0, run |-> 0,
               status |-> NoStatus, statusSends |-> 0, lastErr |-> NoText,
               watching |-> FALSE, okRun |-> 0, okTotal |-> 0]

ExtractSpec == InitExtract /\ [][DeriveStatus]_vars

\* The same program, with the delivered error notifications counted.
SpecWatch == InitWatch /\ [][Next]_vars

TypeOK ==
    /\ pc \in {"start", "fetch", "check", "parse", "diff", "except", "sleep",
               "loop", "exited", "crashed"}
    /\ timestamp \in Nat
    /\ Len(calls) <= 4
    /\ sleeps \in 0..1

-----------------------------------------------------------------------------
(* Vocabulary of the properties *)

\* The cycle has run to its end, sleep included; calls holds all its calls.
CycleDone == pc = "loop"

FetchOk == Len(calls) > 0 /\ calls[1].op = "fetch" /\ calls[1].ok

FetchFailed == Len(calls) > 0 /\ calls[1].op = "fetch" /\ ~calls[1].ok

SendsOf(path) == { i \in 1..Len(calls) : calls[i].op = "send" /\ calls[i].path = path }

AllSends == { i \in 1..Len(calls) : calls[i].op = "send" }

\* The response passed the three shape rules.
ShapeOk ==
    /\ response.pytype = "dict"
    /\ "homeworks" \in DOMAIN response.val
    /\ response.val["homeworks"].pytype = "list"

FirstRecordText == parse_status(response.val["homeworks"].val[1])

MissingTokens == { k \in TokenNames : tokens[k] = None \/ tokens[k].val = "" }

-----------------------------------------------------------------------------
(* Properties *)

\* C1: a cycle in which the delivery of a status notification failed leaves
\* last_status and the cursor as they were when the cycle began.
C1_FailedStatusDeliveryKeepsState ==
    (CycleDone /\ \E i \in SendsOf("status") : ~calls[i].ok)
        => /\ last_status = cycleStart.last_status
           /\ timestamp = cycleStart.timestamp

\* C2: when the fetch succeeded, the response is well-shaped, homeworks is
\* non-empty and the text of its first record differs from the last status,
\* exactly that text is sent as the one status notification, and if it was
\* delivered last_status is that text and the cursor is the response's
\* current_date.
C2_ChangedStatusDeliveredAndRecorded ==
    (/\ CycleDone
     /\ FetchOk
     /\ ShapeOk
     /\ Len(response.val["homeworks"].val) > 0
     /\ ~FirstRecordText.raised
     /\ FirstRecordText.value # cycleStart.last_status)
        => /\ Cardinality(SendsOf("status")) = 1
           /\ \A i \in SendsOf("status") :
                 /\ calls[i].text = FirstRecordText.value
                 /\ calls[i].ok =>
                       /\ last_status = FirstRecordText.value
                       /\ "current_date" \in DOMAIN response.val
                       /\ ~int(response.val["current_date"]).raised
                       /\ timestamp = int(response.val["current_date"]).value

\* C3: a cycle whose fetch succeeded with a well-shaped response and an empty
\* homeworks list sends nothing and leaves last_status, error_message and the
\* cursor unchanged.
C3_EmptyHomeworksIsNoOp ==
    (/\ CycleDone
     /\ FetchOk
     /\ ShapeOk
     /\ Len(response.val["homeworks"].val) = 0)
        => /\ AllSends = {}
           /\ last_status = cycleStart.last_status
           /\ error_message = cycleStart.error_message
           /\ timestamp = cycleStart.timestamp

C3_Witness ==
    /\ CycleDone
    /\ FetchOk
    /\ ShapeOk
    /\ Len(response.val["homeworks"].val) = 0
    /\ cycleStart.last_status # ""
    /\ cycleStart.error_message # ""
    /\ cycleStart.timestamp # Now

\* C4: when this cycle's error text is the previous cycle's, the two cycles
\* together attempt at most one error delivery; when it differs from the
\* previous cycle's error text, this cycle attempts one delivery, of its text.
C4_ErrorDeduplication ==
    (CycleDone /\ message # "" /\ prev.err # NoText)
        => IF message = prev.err
           THEN prev.errSends + Cardinality(SendsOf("error")) <= 1
           ELSE /\ Cardinality(SendsOf("error")) = 1
                /\ \A i \in SendsOf("error") : calls[i].text = message

\* Two cycles in a row gave one error text (the second sent nothing), and this
\* cycle gives another text and sends it.
C4_Witness ==
    /\ CycleDone
    /\ prev.run = 2
    /\ prev.errSends = 0
    /\ message # ""
    /\ message # prev.err
    /\ Cardinality(SendsOf("error")) = 1

\* C5: a cycle in which the delivery of an error notification failed leaves
\* error_message as it was when the cycle began.
C5_FailedErrorDeliveryKeepsErrorText ==
    (CycleDone /\ \E i \in SendsOf("error") : ~calls[i].ok)
        => error_message = cycleStart.error_message

\* C6: once the loop runs (all credentials present), a fetch is made again and
\* again for ever: every cycle finishes and the next cycle's fetch follows,
\* whatever fetch, validation, extraction and the deliveries did.
C6_LoopNeverStops ==
    MissingTokens # {} \/ []<>(pc = "fetch")

\* A cycle in which both the status delivery and the error delivery failed has
\* finished.
C6_Witness ==
    /\ CycleDone
    /\ \E i \in SendsOf("status") : ~calls[i].ok
    /\ \E i \in SendsOf("error") : ~calls[i].ok

\* C7: every cycle ends with exactly one sleep of the fixed interval, after
\* all its other calls, and a fetch other than the first is made only after
\* exactly one sleep since the fetch before it.
C7_OneSleepPerCycle ==
    /\ sleeps <= 1
    /\ pc \in {"check", "parse", "diff", "except", "sleep"} => sleeps = 0
    /\ pc = "loop" =>
          /\ sleeps = 1
          /\ calls[Len(calls)].op = "sleep"
          /\ calls[Len(calls)].text = "600"
          /\ Cardinality({ i \in 1..Len(calls) : calls[i].op = "sleep" }) = 1
    /\ (pc = "fetch" /\ prev.any) => sleeps = 1

\* The next fetch is due after a cycle that took the error path and slept once.
C7_Witness ==
    /\ pc = "fetch"
    /\ prev.any
    /\ prev.err # NoText
    /\ sleeps = 1

\* C8: with a credential missing or empty the process never enters the loop,
\* makes no call, and exits with a non-zero status; with all three present it
\* does not exit.
C8_MissingCredentialIsFatal ==
    /\ MissingTokens # {} =>
          /\ pc \in {"start", "exited"}
          /\ calls = << >>
          /\ pc = "exited" => exitCode # 0
    /\ MissingTokens = {} => pc # "exited"

C8_Witness ==
    /\ pc = "exited"
    /\ exitCode = 1
    /\ MissingTokens = {"TELEGRAM_CHAT_ID"}
    /\ tokens["TELEGRAM_CHAT_ID"] = PyStr("")

\* C9: a fetch that failed (transport failure or a status other than 200)
\* raises the API error (for another status, with the status code in its
\* text), and the cycle goes to the error path without a status delivery.
C9_FetchFailureIsApiError ==
    /\ (pc = "except" /\ FetchFailed /\ Len(calls) = 1) =>
          /\ error.type = "RequestException"
          /\ calls[1].path = "answer" =>
                error.msg = "Error in the API server answer! Answer code: "
                            \o calls[1].text
    /\ (CycleDone /\ FetchFailed) =>
          /\ SendsOf("status") = {}
          /\ message # ""

\* C10: the cursor differs from its value at the start of the cycle only if a
\* status notification was delivered in the cycle.
C10_CursorMovesOnlyAfterDelivery ==
    (CycleDone /\ timestamp # cycleStart.timestamp)
        => \E i \in SendsOf("status") : calls[i].ok

\* C11: when this cycle derives the status text the previous cycle derived,
\* the two cycles together attempt at most one status delivery, and this cycle
\* changes neither last_status nor the cursor.
C11_SameStatusIsIdempotent ==
    (CycleDone /\ status # NoStatus /\ prev.status = status)
        => /\ prev.statusSends + Cardinality(SendsOf("status")) <= 1
           /\ last_status = cycleStart.last_status
           /\ timestamp = cycleStart.timestamp

\* The previous cycle sent the status, and this cycle parsed the same text from
\* a non-empty homeworks list.
C11_Witness ==
    /\ CycleDone
    /\ status # NoStatus
    /\ prev.status = status
    /\ prev.statusSends = 1
    /\ Len(response.val["homeworks"].val) > 0
    /\ SendsOf("status") = {}

\* C12 as stated: over the whole run an error text is delivered at most once
\* (counted for the text of an answer with status 500).
C12_OncePerDistinctText ==
    prev.okTotal <= 1

\* C12 as amended: an error text is delivered at most once over any stretch of
\* cycles, error-free ones included, in which no other error text occurs.
C12_OncePerStretch ==
    /\ prev.okRun <= 1
    /\ (CycleDone /\ message # "" /\ message = prev.lastErr)
          => prev.okRun + NumDelivered(calls, message) <= 1

\* The text was delivered, another error text came, the text was delivered a
\* second time, an error-free cycle followed, and now the text comes again and
\* is not sent.
C12_Witness ==
    /\ CycleDone
    /\ message = WatchedError
    /\ prev.lastErr = WatchedError
    /\ prev.err = NoText
    /\ prev.okRun = 1
    /\ prev.okTotal = 2
    /\ SendsOf("error") = {}

\* C13: check_response applies its three rules in order and the first one that
\* fails decides the error: a value that is no dict, a dict without the key
\* homeworks, a dict whose homeworks is no list; every dict whose homeworks is
\* a list, the empty list included, is accepted.
C13_ValidatorRulesInOrder ==
    /\ pc \in {"check", "parse", "except"}
    /\ pc = "except" =>
          IF response.pytype # "dict"
          THEN error = [type |-> "TypeError",
                        msg |-> "API response is not a dict but " \o response.pytype]
          ELSE IF "homeworks" \notin DOMAIN response.val
          THEN error = [type |-> "KeyError",
                        msg |-> "API response has no key \"homeworks\""]
          ELSE /\ response.val["homeworks"].pytype # "list"
               /\ error = [type |-> "TypeError",
                           msg |-> "homeworks in the API response is not a list"]
    /\ pc = "parse" => ShapeOk /\ error = NoException

\* A dict with an empty homeworks list was accepted.
C13_Witness ==
    /\ pc = "parse"
    /\ ShapeOk
    /\ Len(response.val["homeworks"].val) = 0
    /\ error = NoException

\* The record of the response parse_status is applied to, its name and status.
TheRecord == response.val["homeworks"].val[1]

NameGiven ==
    /\ "homework_name" \in DOMAIN TheRecord
    /\ TheRecord["homework_name"] # None
    /\ TheRecord["homework_name"].val # ""

StatusGiven ==
    /\ "status" \in DOMAIN TheRecord
    /\ TheRecord["status"] # None
    /\ TheRecord["status"].val \in {"approved", "reviewing", "rejected"}

\* C14: parse_status raises the error of the name when homework_name is absent
\* or falsy, whatever the status; else one and the same error of the status
\* when status is absent, falsy or no key of the catalog; else it returns the
\* template filled with the name and the catalog's text.  The result does not
\* depend on the state of the loop, which it leaves as it was.
C14_ExtractorRules ==
    /\ pc \in {"parse", "diff", "except"}
    /\ pc # "parse" =>
          IF ~NameGiven
          THEN /\ pc = "except"
               /\ error = [type |-> "KeyError",
                           msg |-> "homework has no key \"homework_name\""]
          ELSE IF ~StatusGiven
          THEN /\ pc = "except"
               /\ error = [type |-> "KeyError",
                           msg |-> "homework has no status or the status is unknown"]
          ELSE /\ pc = "diff"
               /\ error = NoException
               /\ status = "Changed review status of \""
                           \o TheRecord["homework_name"].val \o "\". "
                           \o HOMEWORK_VERDICTS[TheRecord["status"].val]
    /\ StateOfLoop = cycleStart

\* A record with neither name nor status was refused for its name.
C14_Witness ==
    /\ pc = "except"
    /\ DOMAIN TheRecord = {}
    /\ error.msg = "homework has no key \"homework_name\""
    /\ cycleStart.last_status # ""

\* C15: a cycle changes last_status and the cursor together or not at all: if
\* last_status changed, the cursor is the integer of the response's
\* current_date, and if the cursor changed, last_status is the new status.
C15_StatusAndCursorTogether ==
    CycleDone =>
       /\ last_status # cycleStart.last_status =>
             /\ "current_date" \in DOMAIN response.val
             /\ ~int(response.val["current_date"]).raised
             /\ timestamp = int(response.val["current_date"]).value
       /\ timestamp # cycleStart.timestamp =>
             /\ last_status = status
             /\ status # cycleStart.last_status

\* C16: a cycle attempts at most one delivery, of a status or of an error.
C16_AtMostOneSendPerCycle ==
    Cardinality(AllSends) <= 1

\* The cycle ended in the error path before a status was derived: the fetch
\* failed, the shape was wrong, or the first record lacked a field.
Aborted ==
    \/ FetchFailed
    \/ FetchOk /\ ~ShapeOk
    \/ /\ FetchOk
       /\ ShapeOk
       /\ Len(response.val["homeworks"].val) > 0
       /\ FirstRecordText.raised

\* C17: an aborted cycle leaves last_status and the cursor as they were, and
\* in the cycle after an aborted one a status equal to last_status is not sent.
C17_AbortKeepsBaseline ==
    /\ (CycleDone /\ Aborted) =>
          /\ last_status = cycleStart.last_status
          /\ timestamp = cycleStart.timestamp
    /\ (/\ CycleDone
        /\ prev.err # NoText
        /\ prev.status = NoStatus
        /\ status = cycleStart.last_status)
          => /\ SendsOf("status") = {}
             /\ last_status = cycleStart.last_status
             /\ timestamp = cycleStart.timestamp

\* After an aborted cycle, the status notified before it was parsed again from
\* a non-empty homeworks list and not sent.
C17_Witness ==
    /\ CycleDone
    /\ prev.err # NoText
    /\ prev.status = NoStatus
    /\ FetchOk
    /\ ShapeOk
    /\ Len(response.val["homeworks"].val) > 0
    /\ status = cycleStart.last_status
    /\ cycleStart.timestamp # Now
    /\ AllSends = {}

\* C18: error_message differs from its value at the start of the cycle only
\* once the error path has run in the cycle, and when an error text comes again
\* after error-free cycles with no other error text in between, no error
\* delivery is attempted.
C18_ErrorTextSurvivesSuccess ==
    /\ message = "" => error_message = cycleStart.error_message
    /\ (/\ CycleDone
        /\ message # ""
        /\ prev.err = NoText
        /\ message = prev.lastErr)
          => SendsOf("error") = {}

\* The previous cycle was error-free, the last error before it had this
\* cycle's error text, and this cycle sent nothing.
C18_Witness ==
    /\ CycleDone
    /\ prev.any
    /\ prev.err = NoText
    /\ prev.status # NoStatus
    /\ message # ""
    /\ message = prev.lastErr
    /\ AllSends = {}

\* C19: every cycle makes exactly one fetch, its first call, with the cursor
\* as from_date; the cursor is the startup time until a cycle records a status
\* change, and after a cycle that recorded one it is the integer of that
\* cycle's current_date.
C19_FetchFromCursor ==
    /\ pc \in {"check", "parse", "diff", "except", "sleep", "loop"} =>
          /\ Cardinality({ i \in 1..Len(calls) : calls[i].op = "fetch" }) = 1
          /\ calls[1].op = "fetch"
          /\ calls[1].from_date = cycleStart.timestamp
    /\ (pc = "fetch" /\ ~prev.any) => timestamp = Now
    /\ CycleDone =>
          IF last_status # cycleStart.last_status
          THEN /\ "current_date" \in DOMAIN response.val
               /\ ~int(response.val["current_date"]).raised
               /\ timestamp = int(response.val["current_date"]).value
          ELSE timestamp = cycleStart.timestamp

====
